---- MODULE Spec2Model ----
(***************************************************************************)
(* A model of translator.py: the Braille <-> English translator.           *)
(*                                                                         *)
(* Python strings are modelled as sequences of one-character strings, so   *)
(* that chunking, concatenation and per-character tests are computed and   *)
(* not assumed.  A Python dict is modelled as the sequence of its          *)
(* <<key, value>> items in insertion order (the order Python keeps).       *)
(***************************************************************************)
EXTENDS Integers, Sequences, FiniteSets

(***************************************************************************)
(* Bounds of the model.                                                    *)
(***************************************************************************)
\* longest text argument explored, in characters
MaxLen == 3
\* largest number of whole 6-character cells in a Braille argument
MaxCells == 3

\* characters text arguments are built from: lower-case letters, an
\* upper-case letter that is also a Braille dot character, digits (with the
\* digit zero), space, punctuation, and ":" which the classifier rejects
TextAlphabet == {"a", "b", "c", "O", "0", "1", "2", " ", ".", "(", ")", ":"}

(***************************************************************************)
(* Python built-ins used by the program.                                   *)
(***************************************************************************)
ascii_lowercase ==
  <<"a","b","c","d","e","f","g","h","i","j","k","l","m","n","o","p","q","r","s","t","u","v","w","x","y","z">>
ascii_uppercase ==
  <<"A","B","C","D","E","F","G","H","I","J","K","L","M","N","O","P","Q","R","S","T","U","V","W","X","Y","Z">>
ascii_digits == <<"0","1","2","3","4","5","6","7","8","9">>

Range(f) == {f[i] : i \in DOMAIN f}

IndexOf(seq, x) == CHOOSE i \in DOMAIN seq : seq[i] = x

\* str.isdigit, str.isupper, str.isalnum on one (ASCII) character
isdigit(char) == char \in Range(ascii_digits)
isupper(char) == char \in Range(ascii_uppercase)
islower(char) == char \in Range(ascii_lowercase)
isalnum(char) == isdigit(char) \/ isupper(char) \/ islower(char)

\* str.lower and str.upper on one character: only letters change
lower(char) == IF isupper(char) THEN ascii_lowercase[IndexOf(ascii_uppercase, char)] ELSE char
\* a variant of str.upper that changes nothing
upper_Identity(char) == char
upper(char) == IF islower(char) THEN ascii_uppercase[IndexOf(ascii_lowercase, char)] ELSE char

\* all(pred(char) for char in s), for membership in a set of characters
AllIn(s, chars) == \A i \in DOMAIN s : s[i] \in chars

\* key in d, d[key] (defined when the key is present), and d[key] = value
\* for a dict kept as its items in insertion order
Has(d, key) == \E i \in DOMAIN d : d[i][1] = key
Get(d, key) == d[CHOOSE i \in DOMAIN d : d[i][1] = key][2]
DictSet(d, key, value) ==
  IF Has(d, key)
    THEN [i \in DOMAIN d |-> IF d[i][1] = key THEN <<key, value>> ELSE d[i]]
    ELSE Append(d, <<key, value>>)

\* {v: k for k, v in d.items()}: the items are inserted in order, a later
\* item with the same value overwriting what an earlier one stored
RECURSIVE InvertFirst(_, _)
InvertFirst(d, n) ==
  IF n = 0 THEN <<>> ELSE DictSet(InvertFirst(d, n - 1), d[n][2], d[n][1])
Invert(d) == InvertFirst(d, Len(d))

\* textwrap.wrap(s, width) on a string without whitespace or hyphens (the
\* only strings it is called with): consecutive pieces of width characters,
\* the last one holding what is left; no piece for the empty string
\* a variant that keeps whole pieces only and drops what is left
RECURSIVE wrap_DropRemainder(_, _)
wrap_DropRemainder(s, width) ==
  IF Len(s) < width THEN <<>>
  ELSE <<SubSeq(s, 1, width)>> \o wrap_DropRemainder(SubSeq(s, width + 1, Len(s)), width)

\* a variant that gives one empty piece for the empty string
RECURSIVE wrap_EmptyPiece(_, _)
wrap_EmptyPiece(s, width) ==
  IF Len(s) <= width THEN <<s>>
  ELSE <<SubSeq(s, 1, width)>> \o wrap_EmptyPiece(SubSeq(s, width + 1, Len(s)), width)

RECURSIVE wrap(_, _)
wrap(s, width) ==
  IF Len(s) = 0 THEN <<>>
  ELSE IF Len(s) <= width THEN <<s>>
  ELSE <<SubSeq(s, 1, width)>> \o wrap(SubSeq(s, width + 1, Len(s)), width)

\* width of a Braille cell, the second argument of textwrap.wrap
CellWidth == 6

(***************************************************************************)
(* The tables built in main.                                               *)
(***************************************************************************)
TEXT_TO_BRAILLE ==
  << <<"a", <<"O",".",".",".",".",".">>>>,
     <<"b", <<"O",".","O",".",".",".">>>>,
     <<"c", <<"O","O",".",".",".",".">>>>,
     <<"d", <<"O","O",".","O",".",".">>>>,
     <<"e", <<"O",".",".","O",".",".">>>>,
     <<"f", <<"O","O","O",".",".",".">>>>,
     <<"g", <<"O","O","O","O",".",".">>>>,
     <<"h", <<"O",".","O","O",".",".">>>>,
     <<"i", <<".","O","O",".",".",".">>>>,
     <<"j", <<".","O","O","O",".",".">>>>,
     <<"k", <<"O",".",".",".","O",".">>>>,
     <<"l", <<"O",".","O",".","O",".">>>>,
     <<"m", <<"O","O",".",".","O",".">>>>,
     <<"n", <<"O","O",".","O","O",".">>>>,
     <<"o", <<"O",".",".","O","O",".">>>>,
     <<"p", <<"O","O","O",".","O",".">>>>,
     <<"q", <<"O","O","O","O","O",".">>>>,
     <<"r", <<"O",".","O","O","O",".">>>>,
     <<"s", <<".","O","O",".","O",".">>>>,
     <<"t", <<".","O","O","O","O",".">>>>,
     <<"u", <<"O",".",".",".","O","O">>>>,
     <<"v", <<"O",".","O",".","O","O">>>>,
     <<"w", <<".","O","O","O",".","O">>>>,
     <<"x", <<"O","O",".",".","O","O">>>>,
     <<"y", <<"O","O",".","O","O","O">>>>,
     <<"z", <<"O",".",".","O","O","O">>>>,
     <<",", <<".",".","O",".",".",".">>>>,
     <<";", <<".",".","O",".","O",".">>>>,
     <<":", <<".",".","O","O",".",".">>>>,
     <<".", <<".",".","O","O",".","O">>>>,
     <<"!", <<".",".","O","O","O",".">>>>,
     <<"?", <<".",".","O",".",".","O">>>>,
     <<"(", <<".",".","O",".","O","O">>>>,
     <<")", <<".",".","O",".","O","O">>>>,
     <<"/", <<".","O",".","O",".",".">>>>,
     <<"-", <<".",".",".",".","O",".">>>>,
     <<" ", <<".",".",".",".",".",".">>>>,
     <<"capital", <<".",".",".",".",".","O">>>>,
     <<"number", <<".","O",".","O","O","O">>>>,
     <<"decimal", <<".","O",".",".",".","O">>>> >>

NUMBER_TO_BRAILLE ==
  << <<"1", <<"O",".",".",".",".",".">>>>,
     <<"2", <<"O",".","O",".",".",".">>>>,
     <<"3", <<"O","O",".",".",".",".">>>>,
     <<"4", <<"O","O",".","O",".",".">>>>,
     <<"5", <<"O",".",".","O",".",".">>>>,
     <<"6", <<"O","O","O",".",".",".">>>>,
     <<"7", <<"O","O","O","O",".",".">>>>,
     <<"8", <<"O",".","O","O",".",".">>>>,
     <<"9", <<".","O","O",".",".",".">>>>,
     <<"O", <<".","O","O","O",".",".">>>> >>

\* a variant of the reverse table in which the first symbol of a shared
\* cell is kept instead of the last
RECURSIVE InvertKeepFirst(_, _)
InvertKeepFirst(d, n) ==
  IF n = 0 THEN <<>>
  ELSE LET r == InvertKeepFirst(d, n - 1)
       IN IF Has(r, d[n][2]) THEN r ELSE Append(r, <<d[n][2], d[n][1]>>)
BRAILLE_TO_TEXT_KeepFirst == InvertKeepFirst(TEXT_TO_BRAILLE, Len(TEXT_TO_BRAILLE))

BRAILLE_TO_TEXT == Invert(TEXT_TO_BRAILLE)
BRAILLE_TO_NUMBER == Invert(NUMBER_TO_BRAILLE)

(***************************************************************************)
(* get_input_type: the result is "braille", "text", or the ValueError it   *)
(* raises.                                                                 *)
(***************************************************************************)
BrailleChars == {".", "O"}
TextPunctuation == {" ", ",", ".", "?", "!", ";", "(", ")", "-"}

IsTextChar(char) == isalnum(char) \/ char \in TextPunctuation

\* a variant that tries the text check before the Braille check
get_input_type_TextFirst(s) ==
  IF \A i \in DOMAIN s : IsTextChar(s[i]) THEN "text"
  ELSE IF AllIn(s, BrailleChars) THEN "braille"
  ELSE "ValueError"

\* a variant whose Braille check asks for some dot or O, not for all
get_input_type_AnyBraille(s) ==
  IF s = <<>> \/ \E i \in DOMAIN s : s[i] \in BrailleChars THEN "braille"
  ELSE IF \A i \in DOMAIN s : IsTextChar(s[i]) THEN "text"
  ELSE "ValueError"

get_input_type(s) ==
  IF AllIn(s, BrailleChars) THEN "braille"
  ELSE IF \A i \in DOMAIN s : IsTextChar(s[i]) THEN "text"
  ELSE "ValueError"

(***************************************************************************)
(* One iteration of the loop of translate_braille_to_text on one chunk:    *)
(* the characters it appends, the flags after it, and the exception it     *)
(* raises ("none" when it raises nothing).                                 *)
(***************************************************************************)
\* a variant in which any cell without a digit ends the numeric run
NumberAfterSymbol_EndOnNonDigit(sym, chunk, number) ==
  IF sym = " " \/ ~Has(BRAILLE_TO_NUMBER, chunk) THEN FALSE ELSE number

\* line 56: the number flag once a literal symbol has been looked up
NumberAfterSymbol(sym, chunk, number) == IF sym = " " THEN FALSE ELSE number

\* a variant in which the decimal marker ends the numeric run
DecimalMarker_EndsNumber(capital, number) ==
  [emit |-> <<>>, capital |-> capital, number |-> FALSE, exc |-> "none"]

\* lines 53-54: the decimal marker
DecimalMarker(capital, number) ==
  [emit |-> <<>>, capital |-> capital, number |-> number, exc |-> "none"]

\* a variant that leaves capital set after the upper-cased symbol
EmitCapital_Sticky(sym, num) ==
  [emit |-> <<upper(sym)>>, capital |-> TRUE, number |-> num, exc |-> "none"]

\* lines 59-61: a symbol met with capital set, outside a numeric run
EmitCapital(sym, num) ==
  [emit |-> <<upper(sym)>>, capital |-> FALSE, number |-> num, exc |-> "none"]

DecodeChunk(chunk, capital, number, braille_mapping, number_map) ==
  IF ~Has(braille_mapping, chunk)
    THEN [emit |-> <<>>, capital |-> capital, number |-> number, exc |-> "ValueError"]
  ELSE LET sym == Get(braille_mapping, chunk) IN
    IF sym = "capital"
      THEN [emit |-> <<>>, capital |-> TRUE, number |-> number, exc |-> "none"]
    ELSE IF sym = "number"
      THEN [emit |-> <<>>, capital |-> capital, number |-> TRUE, exc |-> "none"]
    ELSE IF sym = "decimal"
      THEN DecimalMarker(capital, number)
    ELSE LET num == NumberAfterSymbol(sym, chunk, number) IN
      IF num
        THEN IF Has(number_map, chunk)
               THEN [emit |-> <<Get(number_map, chunk)>>, capital |-> capital,
                     number |-> num, exc |-> "none"]
               ELSE [emit |-> <<>>, capital |-> capital, number |-> num,
                     exc |-> "KeyError"]
      ELSE IF capital
        THEN EmitCapital(sym, num)
      ELSE [emit |-> <<sym>>, capital |-> capital, number |-> num, exc |-> "none"]

(***************************************************************************)
(* One iteration of the loop of translate_text_to_braille on one           *)
(* character: the cells it appends, digit_active after it, and the         *)
(* exception it raises.  A missing dict key raises KeyError.               *)
(***************************************************************************)
EncodeResult(out, digit_active) == [out |-> out, digit_active |-> digit_active, exc |-> "none"]
EncodeKeyError(digit_active) == [out |-> <<>>, digit_active |-> digit_active, exc |-> "KeyError"]

\* a variant in which a non-digit character does not clear digit_active
DigitActiveAfterTest_NeverCleared(char, digit_active) == digit_active

\* lines 78-79: digit_active once the character has been tested
DigitActiveAfterTest(char, digit_active) == IF ~isdigit(char) THEN FALSE ELSE digit_active

\* lines 81-85: a digit
EncodeDigit(char, da, mapping, number_map) ==
  IF da
    THEN IF Has(number_map, char)
           THEN EncodeResult(Get(number_map, char), da)
           ELSE EncodeKeyError(da)
    ELSE IF Has(number_map, char)
           THEN EncodeResult(Get(mapping, "number") \o Get(number_map, char), TRUE)
           ELSE EncodeKeyError(da)

\* a variant that appends the lower-cased letter itself, not its cell
EncodeUpper_NoLookup(char, da, mapping) ==
  EncodeResult(Get(mapping, "capital") \o <<lower(char)>>, da)

\* line 87: an upper-case letter
EncodeUpper(char, da, mapping) ==
  IF Has(mapping, lower(char))
    THEN EncodeResult(Get(mapping, "capital") \o Get(mapping, lower(char)), da)
    ELSE EncodeKeyError(da)

\* a variant that appends the cell of the symbol "." of the table
EncodePeriod_OwnCell(da, mapping) == EncodeResult(Get(mapping, "."), da)

\* line 89: the character "."
EncodePeriod(da, mapping) == EncodeResult(Get(mapping, "decimal"), da)

\* line 91: any other character
EncodeOther(char, da, mapping) ==
  IF Has(mapping, char) THEN EncodeResult(Get(mapping, char), da) ELSE EncodeKeyError(da)

EncodeChar(char, digit_active, mapping, number_map) ==
  LET da == DigitActiveAfterTest(char, digit_active) IN
  IF isdigit(char) THEN EncodeDigit(char, da, mapping, number_map)
  ELSE IF isupper(char) THEN EncodeUpper(char, da, mapping)
  ELSE IF char = "." THEN EncodePeriod(da, mapping)
  ELSE EncodeOther(char, da, mapping)

(***************************************************************************)
(* The two functions as whole calls: the loop run to its end or to the     *)
(* iteration that raises.  The result holds the locals at that point;      *)
(* translated is what the call returns when exc is "none".                 *)
(***************************************************************************)
RECURSIVE DecodeLoop(_, _, _, _)
DecodeLoop(chunks, st, braille_mapping, number_map) ==
  IF chunks = <<>> \/ st.exc # "none" THEN st
  ELSE LET r == DecodeChunk(Head(chunks), st.capital, st.number, braille_mapping, number_map)
       IN DecodeLoop(Tail(chunks),
                     [translated |-> st.translated \o r.emit, capital |-> r.capital,
                      number |-> r.number, exc |-> r.exc],
                     braille_mapping, number_map)

\* lines 41 and 44: the decoder's locals before its loop
DecoderStart == [translated |-> <<>>, capital |-> FALSE, number |-> FALSE, exc |-> "none"]

translate_braille_to_text(braille_string, braille_mapping, number_map) ==
  DecodeLoop(wrap(braille_string, CellWidth), DecoderStart, braille_mapping, number_map)

RECURSIVE EncodeLoop(_, _, _, _)
EncodeLoop(text, st, mapping, number_map) ==
  IF text = <<>> \/ st.exc # "none" THEN st
  ELSE LET r == EncodeChar(Head(text), st.digit_active, mapping, number_map)
       IN EncodeLoop(Tail(text),
                     [translated |-> st.translated \o r.out,
                      digit_active |-> r.digit_active, exc |-> r.exc],
                     mapping, number_map)

\* lines 75-76: the encoder's locals before its loop
EncoderStart == [translated |-> <<>>, digit_active |-> FALSE, exc |-> "none"]

translate_text_to_braille(text_string, mapping, number_map) ==
  EncodeLoop(text_string, EncoderStart, mapping, number_map)

(***************************************************************************)
(* The except clause of main: a ValueError is caught and reported, any     *)
(* other exception leaves main.                                            *)
(***************************************************************************)
ErrorLine(e) == [kind |-> "error", exc |-> e, text |-> <<>>]
OutputLine(text) == [kind |-> "line", exc |-> "none", text |-> text]

ExceptClause(e, out) ==
  IF e = "ValueError"
    THEN [stdout |-> Append(out, ErrorLine(e)), pc |-> "print"]
    ELSE [stdout |-> out, pc |-> "crashed"]

(***************************************************************************)
(* State.                                                                  *)
(***************************************************************************)
VARIABLES
  input_string,    \* main: ' '.join(args.input); the text in the round trip
  pc,              \* where the run is
  input_type,      \* main: the classifier's answer, "" before it
  translated,      \* main: its variable translated
  stdout,          \* the lines printed so far
  exc,             \* the exception in flight, "none" when there is none
  braille_chunks,  \* decoder: the chunks of its argument
  ci,              \* decoder: the number of chunks consumed
  dec_translated,  \* decoder: its local translated
  capital,         \* decoder: its flag capital
  number,          \* decoder: its flag number
  ei,              \* encoder: the number of characters consumed
  enc_translated,  \* encoder: its local translated
  digit_active,    \* encoder: its flag digit_active
  calls            \* the translation calls of concurrent callers, by caller

vars == <<input_string, pc, input_type, translated, stdout, exc, braille_chunks,
          ci, dec_translated, capital, number, ei, enc_translated, digit_active,
          calls>>

decoder_vars == <<braille_chunks, ci, dec_translated, capital, number>>
encoder_vars == <<ei, enc_translated, digit_active>>

(***************************************************************************)
(* The arguments explored.                                                 *)
(***************************************************************************)
SeqsUpTo(S, n) == UNION {[1..k -> S] : k \in 0..n}

\* cells Braille arguments are built from: the cells of a, j, k, the three
\* markers, space, the cell shared by the parentheses, and a cell that is
\* in no table
InputCells ==
  { Get(TEXT_TO_BRAILLE, "a"), Get(TEXT_TO_BRAILLE, "j"), Get(TEXT_TO_BRAILLE, "k"),
    Get(TEXT_TO_BRAILLE, "capital"), Get(TEXT_TO_BRAILLE, "number"),
    Get(TEXT_TO_BRAILLE, "decimal"), Get(TEXT_TO_BRAILLE, " "),
    Get(TEXT_TO_BRAILLE, "("), <<"O","O","O","O","O","O">> }

\* what may follow the last whole cell of a Braille argument
Remainders == {<<>>, <<"O">>, <<".", "O", ".">>}

RECURSIVE Flatten(_)
Flatten(ss) == IF Len(ss) = 0 THEN <<>> ELSE Head(ss) \o Flatten(Tail(ss))

TextInputs == SeqsUpTo(TextAlphabet, MaxLen)
BrailleInputs ==
  {Flatten(cells) \o rem : cells \in SeqsUpTo(InputCells, MaxCells), rem \in Remainders}

(***************************************************************************)
(* main, lines 116-129.                                                    *)
(***************************************************************************)
Init ==
  /\ input_string \in TextInputs \cup BrailleInputs
  /\ pc = "main"
  /\ input_type = ""
  /\ translated = <<>>
  /\ stdout = <<>>
  /\ exc = "none"
  /\ braille_chunks = <<>>
  /\ ci = 0
  /\ dec_translated = <<>>
  /\ capital = FALSE
  /\ number = FALSE
  /\ ei = 0
  /\ enc_translated = <<>>
  /\ digit_active = FALSE
  /\ calls = <<>>

\* line 120, and the call of line 123 or 125 up to the loop it enters
Classify ==
  /\ pc = "main"
  /\ LET t == get_input_type(input_string) IN
       IF t = "ValueError"
         THEN /\ exc' = "ValueError"
              /\ pc' = "except"
              /\ UNCHANGED <<input_type, decoder_vars, encoder_vars>>
       ELSE IF t = "braille"
         THEN /\ input_type' = t
              /\ pc' = "decode"
              /\ braille_chunks' = wrap(input_string, CellWidth)
              /\ ci' = 0
              /\ dec_translated' = <<>>
              /\ capital' = FALSE
              /\ number' = FALSE
              /\ UNCHANGED <<exc, encoder_vars>>
         ELSE /\ input_type' = t
              /\ pc' = "encode"
              /\ ei' = 0
              /\ enc_translated' = <<>>
              /\ digit_active' = FALSE
              /\ UNCHANGED <<exc, decoder_vars>>
  /\ UNCHANGED <<input_string, translated, stdout>>
  /\ UNCHANGED calls

\* a variant of the decoder's iteration that accumulates into main's
\* translated instead of a local of its own
DecodeStep_SharedAccumulator ==
  /\ pc = "decode"
  /\ ci < Len(braille_chunks)
  /\ LET r == DecodeChunk(braille_chunks[ci + 1], capital, number,
                          BRAILLE_TO_TEXT, BRAILLE_TO_NUMBER) IN
       /\ ci' = ci + 1
       /\ dec_translated' = dec_translated \o r.emit
       /\ translated' = dec_translated \o r.emit
       /\ capital' = r.capital
       /\ number' = r.number
       /\ exc' = r.exc
       /\ pc' = IF r.exc = "none" THEN "decode" ELSE "except"
  /\ UNCHANGED <<input_string, input_type, stdout, braille_chunks, encoder_vars>>
  /\ UNCHANGED calls

\* lines 45-63: one iteration of the decoder's loop
DecodeStep ==
  /\ pc = "decode"
  /\ ci < Len(braille_chunks)
  /\ LET r == DecodeChunk(braille_chunks[ci + 1], capital, number,
                          BRAILLE_TO_TEXT, BRAILLE_TO_NUMBER) IN
       /\ ci' = ci + 1
       /\ dec_translated' = dec_translated \o r.emit
       /\ capital' = r.capital
       /\ number' = r.number
       /\ exc' = r.exc
       /\ pc' = IF r.exc = "none" THEN "decode" ELSE "except"
  /\ UNCHANGED <<input_string, input_type, translated, stdout, braille_chunks,
                 encoder_vars>>
  /\ UNCHANGED calls

\* line 64 and the assignment of line 123
DecodeReturn ==
  /\ pc = "decode"
  /\ ci = Len(braille_chunks)
  /\ translated' = dec_translated
  /\ pc' = "print"
  /\ UNCHANGED <<input_string, input_type, stdout, exc, decoder_vars, encoder_vars>>
  /\ UNCHANGED calls

\* lines 77-91: one iteration of the encoder's loop
EncodeStep ==
  /\ pc = "encode"
  /\ ei < Len(input_string)
  /\ LET r == EncodeChar(input_string[ei + 1], digit_active,
                         TEXT_TO_BRAILLE, NUMBER_TO_BRAILLE) IN
       /\ ei' = ei + 1
       /\ enc_translated' = enc_translated \o r.out
       /\ digit_active' = r.digit_active
       /\ exc' = r.exc
       /\ pc' = IF r.exc = "none" THEN "encode" ELSE "except"
  /\ UNCHANGED <<input_string, input_type, translated, stdout, decoder_vars>>
  /\ UNCHANGED calls

\* line 92 and the assignment of line 125
EncodeReturn ==
  /\ pc = "encode"
  /\ ei = Len(input_string)
  /\ translated' = enc_translated
  /\ pc' = "print"
  /\ UNCHANGED <<input_string, input_type, stdout, exc, decoder_vars, encoder_vars>>
  /\ UNCHANGED calls

\* lines 126-127
Except ==
  /\ pc = "except"
  /\ LET r == ExceptClause(exc, stdout) IN
       /\ stdout' = r.stdout
       /\ pc' = r.pc
  /\ UNCHANGED <<input_string, input_type, translated, exc, decoder_vars, encoder_vars>>
  /\ UNCHANGED calls

\* line 129
FinalPrint ==
  /\ pc = "print"
  /\ stdout' = Append(stdout, OutputLine(translated))
  /\ pc' = "done"
  /\ UNCHANGED <<input_string, input_type, translated, exc, decoder_vars, encoder_vars>>
  /\ UNCHANGED calls

Next ==
  \/ Classify
  \/ DecodeStep
  \/ DecodeReturn
  \/ EncodeStep
  \/ EncodeReturn
  \/ Except
  \/ FinalPrint

Spec == Init /\ [][Next]_vars

(***************************************************************************)
(* The round trip translate_braille_to_text(translate_text_to_braille(s)): *)
(* the two functions called one after the other with the tables of main.   *)
(* The run ends at "rt_done" with the decoder's result in translated, or   *)
(* at "except" when one of the two calls raises.                           *)
(***************************************************************************)
\* characters of the texts sent round: those of TextAlphabet the symbol
\* table is asked to encode by the classifier, and the comma
RoundTripAlphabet == {c \in TextAlphabet : IsTextChar(c)} \cup {","}

InitRT ==
  /\ input_string \in SeqsUpTo(RoundTripAlphabet, MaxLen)
  /\ pc = "encode"
  /\ input_type = "text"
  /\ translated = <<>>
  /\ stdout = <<>>
  /\ exc = "none"
  /\ braille_chunks = <<>>
  /\ ci = 0
  /\ dec_translated = <<>>
  /\ capital = FALSE
  /\ number = FALSE
  /\ ei = 0
  /\ enc_translated = <<>>
  /\ digit_active = FALSE
  /\ calls = <<>>

\* line 92, and lines 41-44 of the decoder called with the encoder's result
EncodeReturnRT ==
  /\ pc = "encode"
  /\ ei = Len(input_string)
  /\ braille_chunks' = wrap(enc_translated, CellWidth)
  /\ ci' = 0
  /\ dec_translated' = <<>>
  /\ capital' = FALSE
  /\ number' = FALSE
  /\ pc' = "decode"
  /\ UNCHANGED <<input_string, input_type, translated, stdout, exc, encoder_vars>>
  /\ UNCHANGED calls

\* line 64
DecodeReturnRT ==
  /\ pc = "decode"
  /\ ci = Len(braille_chunks)
  /\ translated' = dec_translated
  /\ pc' = "rt_done"
  /\ UNCHANGED <<input_string, input_type, stdout, exc, decoder_vars, encoder_vars>>
  /\ UNCHANGED calls

NextRT ==
  \/ EncodeStep
  \/ EncodeReturnRT
  \/ DecodeStep
  \/ DecodeReturnRT

SpecRT == InitRT /\ [][NextRT]_vars

(***************************************************************************)
(* Concurrent callers of the two functions.  Each caller makes up to       *)
(* MaxCalls calls, one after the other; a call's frame holds its own       *)
(* locals, and the steps of different callers interleave freely.  The      *)
(* tables are the only data the calls share, and no step writes them.      *)
(* earlier records the flags and the exception the caller's previous call  *)
(* ended with.                                                             *)
(***************************************************************************)
\* calls made by one caller
MaxCalls == 2

Callers == {1, 2}

\* arguments of the calls: Braille strings that end with a flag set, fail
\* on a cell or decode cleanly, and texts that end in a digit run, fail or
\* encode cleanly
DecodeArgs ==
  { <<>>,
    Get(TEXT_TO_BRAILLE, "number") \o Get(TEXT_TO_BRAILLE, "a"),
    Get(TEXT_TO_BRAILLE, "capital"),
    Get(TEXT_TO_BRAILLE, "capital") \o Get(TEXT_TO_BRAILLE, "a"),
    Get(TEXT_TO_BRAILLE, "number") \o Get(TEXT_TO_BRAILLE, "k"),
    Get(TEXT_TO_BRAILLE, "a") \o <<"O">> }
EncodeArgs == { <<"a">>, <<"1">>, <<"1", "a">>, <<"0">>, <<"O", "1">> }

NoEarlier == [capital |-> FALSE, number |-> FALSE, digit_active |-> FALSE, exc |-> "none"]
IdleCall ==
  [pc |-> "idle", fn |-> "none", arg |-> <<>>, n |-> 0, i |-> 0, braille_chunks |-> <<>>,
   translated |-> <<>>, capital |-> FALSE, number |-> FALSE, digit_active |-> FALSE,
   exc |-> "none", earlier |-> NoEarlier]

\* a variant in which the flags are not locals set at the start of a call
\* but keep the values the previous call left
StartCall_KeepFlags(prev, fn, arg) ==
  [pc |-> "running", fn |-> fn, arg |-> arg, n |-> prev.n + 1, i |-> 0,
   braille_chunks |-> IF fn = "decode" THEN wrap(arg, CellWidth) ELSE <<>>,
   translated |-> <<>>,
   capital |-> prev.capital, number |-> prev.number, digit_active |-> prev.digit_active,
   exc |-> "none",
   earlier |-> [capital |-> prev.capital, number |-> prev.number,
                digit_active |-> prev.digit_active, exc |-> prev.exc]]

\* lines 41-44 and 75-76: the frame of a new call, after the caller's
\* previous call prev
StartCall(prev, fn, arg) ==
  [pc |-> "running", fn |-> fn, arg |-> arg, n |-> prev.n + 1, i |-> 0,
   braille_chunks |-> IF fn = "decode" THEN wrap(arg, CellWidth) ELSE <<>>,
   translated |-> DecoderStart.translated,
   capital |-> DecoderStart.capital, number |-> DecoderStart.number,
   digit_active |-> EncoderStart.digit_active,
   exc |-> "none",
   earlier |-> [capital |-> prev.capital, number |-> prev.number,
                digit_active |-> prev.digit_active, exc |-> prev.exc]]

\* lines 45-63 and 77-91: one loop iteration of a call
StepCall(call) ==
  IF call.fn = "decode"
    THEN LET r == DecodeChunk(call.braille_chunks[call.i + 1], call.capital, call.number,
                              BRAILLE_TO_TEXT, BRAILLE_TO_NUMBER)
         IN [call EXCEPT !.i = @ + 1, !.translated = @ \o r.emit, !.capital = r.capital,
                         !.number = r.number, !.exc = r.exc,
                         !.pc = IF r.exc = "none" THEN "running" ELSE "raised"]
    ELSE LET r == EncodeChar(call.arg[call.i + 1], call.digit_active,
                             TEXT_TO_BRAILLE, NUMBER_TO_BRAILLE)
         IN [call EXCEPT !.i = @ + 1, !.translated = @ \o r.out,
                         !.digit_active = r.digit_active, !.exc = r.exc,
                         !.pc = IF r.exc = "none" THEN "running" ELSE "raised"]

\* the number of iterations the loop of a call makes when nothing raises
LoopLength(call) == IF call.fn = "decode" THEN Len(call.braille_chunks) ELSE Len(call.arg)

main_vars == <<input_string, pc, input_type, translated, stdout, exc, braille_chunks,
               ci, dec_translated, capital, number, ei, enc_translated, digit_active>>

InitTwo ==
  /\ input_string = <<>>
  /\ pc = "calls"
  /\ input_type = ""
  /\ translated = <<>>
  /\ stdout = <<>>
  /\ exc = "none"
  /\ braille_chunks = <<>>
  /\ ci = 0
  /\ dec_translated = <<>>
  /\ capital = FALSE
  /\ number = FALSE
  /\ ei = 0
  /\ enc_translated = <<>>
  /\ digit_active = FALSE
  /\ calls = [c \in Callers |-> IdleCall]

\* a caller calls translate_braille_to_text or translate_text_to_braille
CallStart(c) ==
  /\ calls[c].pc \in {"idle", "returned", "raised"}
  /\ calls[c].n < MaxCalls
  /\ \/ \E arg \in DecodeArgs : calls' = [calls EXCEPT ![c] = StartCall(calls[c], "decode", arg)]
     \/ \E arg \in EncodeArgs : calls' = [calls EXCEPT ![c] = StartCall(calls[c], "encode", arg)]
  /\ UNCHANGED main_vars

\* lines 45-63 or 77-91: one iteration of the loop of a caller's call
CallStep(c) ==
  /\ calls[c].pc = "running"
  /\ calls[c].i < LoopLength(calls[c])
  /\ calls' = [calls EXCEPT ![c] = StepCall(calls[c])]
  /\ UNCHANGED main_vars

\* line 64 or 92: the call returns its translated
CallReturn(c) ==
  /\ calls[c].pc = "running"
  /\ calls[c].i = LoopLength(calls[c])
  /\ calls' = [calls EXCEPT ![c].pc = "returned"]
  /\ UNCHANGED main_vars

NextTwo ==
  \/ \E c \in Callers : CallStart(c)
  \/ \E c \in Callers : CallStep(c)
  \/ \E c \in Callers : CallReturn(c)

SpecTwo == InitTwo /\ [][NextTwo]_vars

(***************************************************************************)
(* Properties.                                                             *)
(***************************************************************************)
Last(seq) == seq[Len(seq)]

\* the cells of the symbol table that the properties name
CapitalCell == <<".", ".", ".", ".", ".", "O">>
NumberCell == <<".", "O", ".", "O", "O", "O">>
DecimalCell == <<".", "O", ".", ".", ".", "O">>
SpaceCell == <<".", ".", ".", ".", ".", ".">>
ParenCell == <<".", ".", "O", ".", "O", "O">>

\* C1: round trip.  For every text of lower-case letters, digits and the
\* supported punctuation, encoding and then decoding raises nothing and
\* returns exactly the text.
C1_Domain(s) ==
  \A i \in DOMAIN s :
    s[i] \in Range(ascii_lowercase) \cup Range(ascii_digits) \cup TextPunctuation
C1_RoundTrip ==
  C1_Domain(input_string) =>
    /\ pc # "except"
    /\ pc = "rt_done" => translated = input_string

\* C2: the classifier answers "braille" exactly when every character is a
\* dot or an O; otherwise "text" exactly when every character is
\* alphanumeric or permitted punctuation; otherwise it raises ValueError, and
\* then neither translation loop runs a step and nothing but the empty
\* line is printed as the translation.
C2_AllBraille(s) == \A i \in DOMAIN s : s[i] = "." \/ s[i] = "O"
C2_AllText(s) ==
  \A i \in DOMAIN s :
    \/ s[i] \in Range(ascii_lowercase) \cup Range(ascii_uppercase) \cup Range(ascii_digits)
    \/ s[i] \in {" ", ",", ".", "?", "!", ";", "(", ")", "-"}
C2_Classifier ==
  pc # "main" =>
    /\ input_type = "braille" <=> C2_AllBraille(input_string)
    /\ input_type = "text" <=> (~C2_AllBraille(input_string) /\ C2_AllText(input_string))
    /\ (~C2_AllBraille(input_string) /\ ~C2_AllText(input_string)) =>
         /\ input_type = ""
         /\ exc = "ValueError"
         /\ pc \in {"except", "print", "done"}
         /\ ci = 0 /\ ei = 0
         /\ dec_translated = <<>> /\ enc_translated = <<>> /\ translated = <<>>
         /\ \A k \in DOMAIN stdout : stdout[k].text = <<>>

\* C2 witness: an argument mixing a letter with a character outside both
\* alphabets was rejected as a whole.
C2_Witness ==
  /\ pc = "done"
  /\ input_string = <<"a", ":", "b">>
  /\ exc = "ValueError"
  /\ stdout = <<ErrorLine("ValueError"), OutputLine(<<>>)>>

\* C3: no failure leaves main: every run that raised reaches the final
\* print with one diagnostic line before it.
C3_NoEscape ==
  /\ pc # "crashed"
  /\ (exc # "none" /\ pc = "done") => (Len(stdout) = 2 /\ stdout[1].kind = "error")

\* C4: when the classifier or the decoder raised ValueError, main's
\* translated stays empty, and the run prints the error line and then the
\* empty line, whatever the decoder had emitted before the failing cell.
C4_EmptyOnError ==
  exc = "ValueError" =>
    /\ translated = <<>>
    /\ pc # "crashed"
    /\ pc = "print" => stdout = <<ErrorLine("ValueError")>>
    /\ pc = "done" => stdout = <<ErrorLine("ValueError"), OutputLine(<<>>)>>

\* C4 witness: the decoder had emitted characters when it met the cell it
\* failed on, and the run has printed its two lines.
C4_Witness ==
  /\ pc = "done"
  /\ exc = "ValueError"
  /\ input_type = "braille"
  /\ Len(dec_translated) >= 2
  /\ stdout = <<ErrorLine("ValueError"), OutputLine(<<>>)>>

\* C5: in the encoder's output the number marker stands exactly once per
\* maximal run of digits, immediately before the cell of the run's first
\* digit, and digit_active is true exactly when the character consumed
\* last was a digit.
C5_RunStarts(s, n) ==
  {j \in 1..n : isdigit(s[j]) /\ (j = 1 \/ ~isdigit(s[j - 1]))}
\* the number of cells the characters before position j have produced
C5_CellsBefore(s, j) ==
  (j - 1) + Cardinality({k \in 1..(j - 1) : k \in C5_RunStarts(s, j - 1) \/ isupper(s[k])})
C5_OneMarkerPerRun ==
  (input_type = "text" /\ exc = "none") =>
    LET cells == wrap(enc_translated, CellWidth)
        starts == C5_RunStarts(input_string, ei)
    IN /\ digit_active = (ei > 0 /\ isdigit(input_string[ei]))
       /\ {k \in DOMAIN cells : cells[k] = NumberCell}
            = {C5_CellsBefore(input_string, j) + 1 : j \in starts}
       /\ \A j \in 1..ei :
            isdigit(input_string[j]) =>
              cells[C5_CellsBefore(input_string, j) + (IF j \in starts THEN 2 ELSE 1)]
                = Get(NUMBER_TO_BRAILLE, input_string[j])

\* C5 witness: a text with two digit runs parted by a letter was encoded
\* with two number markers.
C5_Witness ==
  /\ pc = "done"
  /\ input_string = <<"1", "a", "2">>
  /\ translated = NumberCell \o Get(NUMBER_TO_BRAILLE, "1") \o Get(TEXT_TO_BRAILLE, "a")
                    \o NumberCell \o Get(NUMBER_TO_BRAILLE, "2")

\* C6: a text without digits is encoded, without failure, as the in-order
\* concatenation of: capital marker and the cell of the lower-cased letter
\* for an upper-case letter, the decimal marker for ".", and the symbol's
\* own cell for anything else; "abc" gives "O.....O.O...OO....".
C6_Expected(char) ==
  IF char \in Range(ascii_uppercase)
    THEN CapitalCell \o Get(TEXT_TO_BRAILLE, ascii_lowercase[IndexOf(ascii_uppercase, char)])
  ELSE IF char = "." THEN DecimalCell
  ELSE Get(TEXT_TO_BRAILLE, char)
C6_NoDigits(s) == \A i \in DOMAIN s : s[i] \notin Range(ascii_digits)
C6_EncodeWithoutDigits ==
  (input_type = "text" /\ C6_NoDigits(input_string)) =>
    /\ exc = "none"
    /\ \A c \in Range(ascii_lowercase) \cup TextPunctuation : Has(TEXT_TO_BRAILLE, c)
    /\ enc_translated = Flatten([i \in 1..ei |-> C6_Expected(input_string[i])])
    /\ pc \in {"print", "done"} =>
         translated = Flatten([i \in 1..Len(input_string) |-> C6_Expected(input_string[i])])
    /\ (pc = "done" /\ input_string = <<"a", "b", "c">>) =>
         translated = <<"O",".",".",".",".",".", "O",".","O",".",".",".", "O","O",".",".",".",".">>

\* C6 witness: a text with an upper-case letter, a period and a lower-case
\* letter was encoded.
C6_Witness ==
  /\ pc = "done"
  /\ input_string = <<"O", ".", "a">>
  /\ translated = <<".",".",".",".",".","O", "O",".",".","O","O",".",
                    ".","O",".",".",".","O", "O",".",".",".",".",".">>

\* C7: what the encoder has accumulated always has a length that is a
\* multiple of 6 and consists of cells of the symbol table over the dot and
\* the O; the string it returns is classified as Braille.
C7_CellsOnly ==
  /\ Len(enc_translated) % 6 = 0
  /\ \A chunk \in Range(wrap(enc_translated, 6)) :
       /\ Len(chunk) = 6
       /\ \A i \in 1..6 : chunk[i] = "." \/ chunk[i] = "O"
       /\ \E i \in DOMAIN TEXT_TO_BRAILLE : TEXT_TO_BRAILLE[i][2] = chunk
  /\ (input_type = "text" /\ exc = "none" /\ pc \in {"print", "done"}) =>
       /\ translated = enc_translated
       /\ get_input_type(translated) = "braille"

\* C7 witness: the encoder is in the middle of a text and has accumulated
\* four cells.
C7_Witness ==
  /\ pc = "encode"
  /\ ei = 2
  /\ ei < Len(input_string)
  /\ Len(enc_translated) = 24

\* C8: the digit table pairs the digits 1-9 with the cells of a-i and the
\* digit 0 with the cell of j: the encoder appends that cell for every
\* digit, and the decoder, while number is set, emits that digit for it.
C8_LetterOf(d) ==
  IF d = "0" THEN "j" ELSE ascii_lowercase[IndexOf(ascii_digits, d) - 1]
C8_DigitTable ==
  /\ (input_type = "text" /\ ei > 0 /\ input_string[ei] \in Range(ascii_digits)) =>
       /\ exc = "none"
       /\ SubSeq(enc_translated, Len(enc_translated) - 5, Len(enc_translated))
            = Get(TEXT_TO_BRAILLE, C8_LetterOf(input_string[ei]))
  /\ \A d \in Range(ascii_digits) :
       (/\ pc = "decode" /\ ci > 0 /\ number
        /\ braille_chunks[ci] = Get(TEXT_TO_BRAILLE, C8_LetterOf(d))) =>
         (dec_translated # <<>> /\ Last(dec_translated) = d)

\* the symbol table is one-to-one but for the two parentheses, which share
\* a cell, and the reverse table has one entry for each cell, which gives
\* back the symbol of the cell, one of the parentheses for theirs
C9_Bijection ==
  /\ \A i, j \in DOMAIN TEXT_TO_BRAILLE :
       i # j =>
         /\ TEXT_TO_BRAILLE[i][1] # TEXT_TO_BRAILLE[j][1]
         /\ TEXT_TO_BRAILLE[i][2] = TEXT_TO_BRAILLE[j][2] =>
              {TEXT_TO_BRAILLE[i][1], TEXT_TO_BRAILLE[j][1]} = {"(", ")"}
  /\ Get(TEXT_TO_BRAILLE, "(") = ParenCell
  /\ Get(TEXT_TO_BRAILLE, ")") = ParenCell
  /\ Len(BRAILLE_TO_TEXT) = Len(TEXT_TO_BRAILLE) - 1
  /\ \A i \in DOMAIN TEXT_TO_BRAILLE :
       /\ Has(BRAILLE_TO_TEXT, TEXT_TO_BRAILLE[i][2])
       /\ IF TEXT_TO_BRAILLE[i][1] \in {"(", ")"}
            THEN Get(BRAILLE_TO_TEXT, TEXT_TO_BRAILLE[i][2]) \in {"(", ")"}
            ELSE Get(BRAILLE_TO_TEXT, TEXT_TO_BRAILLE[i][2]) = TEXT_TO_BRAILLE[i][1]
\* the decoder has just consumed the cell of the parentheses outside a
\* numeric run
C9_ParenDecoded ==
  pc = "decode" /\ ci > 0 /\ braille_chunks[ci] = ParenCell /\ ~number

\* C9 as stated: the shared cell decodes to "(".
C9_OpenParen ==
  /\ C9_Bijection
  /\ C9_ParenDecoded => (dec_translated # <<>> /\ Last(dec_translated) = "(")

\* C9 as amended: the symbol table is one-to-one but for "(" and ")", which
\* share a cell, and the reverse table resolves that cell to ")": decoding
\* it outside a numeric run always yields ")" and never "(".
C9_CloseParen ==
  /\ C9_Bijection
  /\ C9_ParenDecoded => (dec_translated # <<>> /\ Last(dec_translated) = ")")

\* C9 witness: the cell of the parentheses alone was decoded and printed.
C9_Witness ==
  /\ pc = "done"
  /\ input_string = ParenCell
  /\ stdout = <<OutputLine(<<")">>)>>

\* C10: number is false when the decoder starts; an iteration sets it
\* exactly on a number marker and clears it exactly on a space cell, which
\* also emits a space; every other cell leaves it as it is; and while it is
\* set, a cell that is neither a marker nor a space emits its digit-table
\* entry, or nothing when it has none.
C10_Step ==
  (pc = "decode" /\ ci' = ci + 1) =>
    LET chunk == braille_chunks[ci + 1] IN
      /\ chunk = NumberCell => number'
      /\ (number /\ chunk # SpaceCell) => number'
      /\ (~number /\ chunk # NumberCell) => ~number'
      /\ chunk = SpaceCell =>
           (~number' /\ exc' = "none" /\ dec_translated' = Append(dec_translated, " "))
      /\ (number /\ chunk \notin {CapitalCell, NumberCell, DecimalCell, SpaceCell}) =>
           IF \E i \in DOMAIN NUMBER_TO_BRAILLE : NUMBER_TO_BRAILLE[i][2] = chunk
             THEN \E i \in DOMAIN NUMBER_TO_BRAILLE :
                    /\ NUMBER_TO_BRAILLE[i][2] = chunk
                    /\ dec_translated' = Append(dec_translated, NUMBER_TO_BRAILLE[i][1])
             ELSE dec_translated' = dec_translated /\ exc' # "none"
C10_NumberActive ==
  /\ []((pc = "decode" /\ ci = 0) => ~number)
  /\ [][C10_Step]_vars

\* C10 witness: after a number marker and a digit cell, a space cell has
\* cleared number and emitted a space.
C10_Witness ==
  /\ pc = "decode"
  /\ ci = 3
  /\ braille_chunks[1] = NumberCell
  /\ braille_chunks[3] = SpaceCell
  /\ ~number
  /\ dec_translated = <<"1", " ">>

\* a letter cell used by the properties below
ACell == <<"O", ".", ".", ".", ".", ".">>

\* the symbol of a cell that is in the reverse table and is no marker
IsLiteralCell(chunk) ==
  /\ \E i \in DOMAIN TEXT_TO_BRAILLE : TEXT_TO_BRAILLE[i][2] = chunk
  /\ chunk \notin {CapitalCell, NumberCell, DecimalCell}
\* a character upper-cased: only lower-case letters change
UpperCased(sym) ==
  IF sym \in Range(ascii_lowercase)
    THEN ascii_uppercase[IndexOf(ascii_lowercase, sym)]
    ELSE sym

\* C11 as stated: capital is set by the capital marker and cleared only by
\* a literal cell other than the space emitted outside a numeric run; the
\* space cell, the number and decimal markers and a cell emitted as a digit
\* leave it unchanged, so capital marker, space, letter decodes to a space
\* and the upper-case letter.
C11_StatedStep ==
  (pc = "decode" /\ ci' = ci + 1) =>
    LET chunk == braille_chunks[ci + 1] IN
      /\ chunk = CapitalCell => capital'
      /\ chunk \in {SpaceCell, NumberCell, DecimalCell} => capital' = capital
      /\ (number /\ chunk # SpaceCell /\ chunk # CapitalCell) => capital' = capital
      /\ (capital /\ ~capital') => (IsLiteralCell(chunk) /\ chunk # SpaceCell /\ ~number)
C11_SpaceKeepsCapital ==
  /\ [][C11_StatedStep]_vars
  /\ []((pc = "done" /\ input_string = CapitalCell \o SpaceCell \o ACell) =>
          translated = <<" ", "A">>)

\* C11 as amended: capital is set by the capital marker and cleared exactly
\* when a literal cell is emitted outside a numeric run, the space cell
\* included (it ends the numeric run first); the emitted symbol is
\* upper-cased, which changes letters only.  The number and decimal markers
\* and a cell met during a numeric run leave capital unchanged.  Capital
\* marker, space, letter decodes to a space and the lower-case letter.
C11_Step ==
  (pc = "decode" /\ ci' = ci + 1) =>
    LET chunk == braille_chunks[ci + 1] IN
      /\ chunk = CapitalCell => capital'
      /\ chunk \in {NumberCell, DecimalCell} => capital' = capital
      /\ (number /\ chunk # SpaceCell /\ chunk # CapitalCell) => capital' = capital
      /\ (~capital /\ chunk # CapitalCell) => ~capital'
      /\ (capital /\ IsLiteralCell(chunk) /\ (~number \/ chunk = SpaceCell)) =>
           /\ ~capital'
           /\ exc' = "none"
           /\ \E i \in DOMAIN TEXT_TO_BRAILLE :
                /\ TEXT_TO_BRAILLE[i][2] = chunk
                /\ dec_translated' = Append(dec_translated, UpperCased(TEXT_TO_BRAILLE[i][1]))
C11_CapitalPending ==
  /\ [][C11_Step]_vars
  /\ []((pc = "done" /\ input_string = CapitalCell \o SpaceCell \o ACell) =>
          translated = <<" ", "a">>)

\* C11 witness: capital marker, space cell, letter cell was decoded and
\* printed as a space and the lower-case letter.
C11_Witness ==
  /\ pc = "done"
  /\ input_string = CapitalCell \o SpaceCell \o ACell
  /\ ~capital
  /\ stdout = <<OutputLine(<<" ", "a">>)>>

\* C12: the decoder fails with ValueError and with no other exception,
\* both on a chunk that is not in the reverse table and, during a numeric
\* run, on a literal cell other than the space that has no digit-table
\* entry.
C12_HasDigit(chunk) == \E i \in DOMAIN NUMBER_TO_BRAILLE : NUMBER_TO_BRAILLE[i][2] = chunk
C12_InvalidCellOnly ==
  (input_type = "braille" /\ ci > 0) =>
    LET chunk == braille_chunks[ci] IN
      /\ exc \in {"none", "ValueError"}
      /\ (\A i \in DOMAIN TEXT_TO_BRAILLE : TEXT_TO_BRAILLE[i][2] # chunk) => exc = "ValueError"
      /\ (number /\ IsLiteralCell(chunk) /\ chunk # SpaceCell /\ ~C12_HasDigit(chunk)) =>
           exc = "ValueError"

\* C13: the decoder's chunks are the consecutive 6-character pieces of its
\* argument, the last one holding what is left, consumed in order; for an
\* argument whose length is no multiple of 6 the call never returns, and
\* once every whole cell has been decoded it fails with ValueError on the
\* short last chunk.
C13_Min(a, b) == IF a < b THEN a ELSE b
C13_Remainder ==
  input_type = "braille" =>
    /\ Len(braille_chunks) = (Len(input_string) + 5) \div 6
    /\ \A k \in DOMAIN braille_chunks :
         braille_chunks[k]
           = SubSeq(input_string, 6 * (k - 1) + 1, C13_Min(6 * k, Len(input_string)))
    /\ ci <= Len(braille_chunks)
    /\ Len(input_string) % 6 # 0 =>
         /\ translated = <<>>
         /\ ~(pc \in {"print", "done"} /\ exc = "none")
         /\ ci = Len(braille_chunks) => (exc = "ValueError" /\ pc \in {"except", "print", "done"})

\* C13 witness: a letter cell followed by one more character: the letter
\* was decoded, then the short chunk failed.
C13_Witness ==
  /\ pc = "done"
  /\ input_string = ACell \o <<"O">>
  /\ ci = 2
  /\ dec_translated = <<"a">>
  /\ exc = "ValueError"
  /\ stdout = <<ErrorLine("ValueError"), OutputLine(<<>>)>>

\* C14: the iteration on a decimal marker emits nothing, raises nothing and
\* leaves capital and number as they are; at every point the decoder's
\* locals are those of a decoder run on the chunks consumed so far with
\* the decimal markers taken out.
C14_Step ==
  (pc = "decode" /\ ci' = ci + 1 /\ braille_chunks[ci + 1] = DecimalCell) =>
    /\ dec_translated' = dec_translated
    /\ capital' = capital
    /\ number' = number
    /\ exc' = "none"
    /\ pc' = "decode"
C14_WithoutDecimal(chunks) == SelectSeq(chunks, LAMBDA c : c # DecimalCell)
C14_DecimalIgnored ==
  /\ [][C14_Step]_vars
  /\ [](input_type = "braille" =>
          [translated |-> dec_translated, capital |-> capital, number |-> number, exc |-> exc]
            = DecodeLoop(C14_WithoutDecimal(SubSeq(braille_chunks, 1, ci)), DecoderStart,
                         BRAILLE_TO_TEXT, BRAILLE_TO_NUMBER))

\* C14 witness: number marker, decimal marker, letter cell was decoded to
\* the digit the letter cell stands for.
C14_Witness ==
  /\ pc = "done"
  /\ input_string = NumberCell \o DecimalCell \o ACell
  /\ stdout = <<OutputLine(<<"1">>)>>

\* C15 as stated: no non-empty string of letters, digits and permitted
\* punctuation passes both checks of the classifier, so none is classified
\* as Braille and handed to the decoder.
C15_NoAmbiguity ==
  (pc # "main" /\ input_string # <<>> /\ C2_AllText(input_string)) =>
    /\ ~C2_AllBraille(input_string)
    /\ input_type # "braille"
    /\ braille_chunks = <<>> /\ ci = 0

\* C15 as amended: a non-empty string of letters, digits and permitted
\* punctuation passes both checks exactly when it consists of the
\* upper-case letter O and the period only; such a text is classified as
\* Braille and handed to the decoder, and every other one is classified as
\* text and never reaches the decoder.
C15_DotsAndOsOnly ==
  (pc # "main" /\ input_string # <<>> /\ C2_AllText(input_string)) =>
    IF \A i \in DOMAIN input_string : input_string[i] \in {".", "O"}
      THEN /\ input_type = "braille"
           /\ braille_chunks # <<>>
           /\ ei = 0 /\ enc_translated = <<>>
      ELSE /\ input_type = "text"
           /\ braille_chunks = <<>> /\ ci = 0 /\ dec_translated = <<>>

\* C15 witness: the text "O." was classified as Braille, decoded as one
\* short chunk and reported as an error.
C15_Witness ==
  /\ pc = "done"
  /\ input_string = <<"O", ".">>
  /\ input_type = "braille"
  /\ braille_chunks = <<input_string>>
  /\ stdout = <<ErrorLine("ValueError"), OutputLine(<<>>)>>

\* C16: every string of ASCII letters, digits and permitted punctuation
\* that is classified as text is encoded to completion: the encoder never
\* fails on a missing table entry.
C16_EncodesToCompletion ==
  input_type = "text" =>
    /\ exc = "none"
    /\ pc \in {"encode", "print", "done"}

\* C18: the empty argument is classified as Braille, the decoder gets no
\* chunk, runs no iteration and returns the empty string without error,
\* which is printed as one empty line.
C18_EmptyInput ==
  (input_string = <<>> /\ pc # "main") =>
    /\ input_type = "braille"
    /\ braille_chunks = <<>>
    /\ ci = 0
    /\ dec_translated = <<>>
    /\ exc = "none"
    /\ pc \in {"decode", "print", "done"}
    /\ translated = <<>>
    /\ pc = "done" => stdout = <<OutputLine(<<>>)>>

\* C18 witness: the run on the empty argument has ended.
C18_Witness ==
  /\ pc = "done"
  /\ input_string = <<>>
  /\ input_type = "braille"
  /\ stdout = <<OutputLine(<<>>)>>

\* C17: for every text of lower-case and upper-case letters, space, the
\* marks , ? ! ; - and the digits 1-9 in which every maximal digit run is
\* followed by a space or ends the text, encoding and then decoding raises
\* nothing and returns exactly the text.
C17_Domain(s) ==
  /\ \A i \in DOMAIN s :
       s[i] \in Range(ascii_lowercase) \cup Range(ascii_uppercase)
                  \cup {" ", ",", "?", "!", ";", "-"}
                  \cup {"1", "2", "3", "4", "5", "6", "7", "8", "9"}
  /\ \A i \in 1..(Len(s) - 1) :
       s[i] \in Range(ascii_digits) => (s[i + 1] \in Range(ascii_digits) \/ s[i + 1] = " ")
C17_RoundTrip ==
  C17_Domain(input_string) =>
    /\ exc = "none"
    /\ pc # "except"
    /\ pc = "rt_done" => translated = input_string

\* C17 witness: a digit, a space and an upper-case letter went round.
C17_Witness ==
  /\ pc = "rt_done"
  /\ input_string = <<"1", " ", "O">>
  /\ enc_translated = NumberCell \o ACell \o SpaceCell \o CapitalCell \o Get(TEXT_TO_BRAILLE, "o")
  /\ translated = <<"1", " ", "O">>

\* C19: every call starts with its flags false and its translated empty,
\* whatever the caller's earlier call ended with; at every point of every
\* interleaving the locals of a call are those of the same call run alone
\* up to that iteration, and the call returns or raises exactly what it
\* returns or raises when run alone.
C19_Alone(call) ==
  IF call.fn = "decode"
    THEN translate_braille_to_text(call.arg, BRAILLE_TO_TEXT, BRAILLE_TO_NUMBER)
    ELSE translate_text_to_braille(call.arg, TEXT_TO_BRAILLE, NUMBER_TO_BRAILLE)
C19_AloneUpTo(call) ==
  IF call.fn = "decode"
    THEN DecodeLoop(SubSeq(wrap(call.arg, CellWidth), 1, call.i), DecoderStart,
                    BRAILLE_TO_TEXT, BRAILLE_TO_NUMBER)
    ELSE EncodeLoop(SubSeq(call.arg, 1, call.i), EncoderStart,
                    TEXT_TO_BRAILLE, NUMBER_TO_BRAILLE)
C19_PerCallState ==
  \A c \in Callers :
    LET call == calls[c] IN
      /\ (call.pc = "running" /\ call.i = 0) =>
           /\ ~call.capital /\ ~call.number /\ ~call.digit_active
           /\ call.translated = <<>>
           /\ call.exc = "none"
      /\ call.pc # "idle" =>
           /\ call.translated = C19_AloneUpTo(call).translated
           /\ call.exc = C19_AloneUpTo(call).exc
           /\ call.fn = "decode" =>
                (call.capital = C19_AloneUpTo(call).capital
                   /\ call.number = C19_AloneUpTo(call).number)
           /\ call.fn = "encode" => call.digit_active = C19_AloneUpTo(call).digit_active
      /\ call.pc = "returned" =>
           (C19_Alone(call).exc = "none" /\ call.translated = C19_Alone(call).translated)
      /\ call.pc = "raised" =>
           (call.exc # "none" /\ C19_Alone(call).exc = call.exc)

\* C19 witness: a caller whose first call ended with number set has made a
\* second call, which returned the capital letter, while the other caller
\* was in the middle of a call of its own.
C19_Witness ==
  \E c, d \in Callers :
    /\ c # d
    /\ calls[c].n = 2
    /\ calls[c].earlier.number
    /\ calls[c].pc = "returned"
    /\ calls[c].fn = "decode"
    /\ calls[c].arg = CapitalCell \o ACell
    /\ calls[c].translated = <<"A">>
    /\ calls[d].pc = "running"
    /\ calls[d].i > 0
    /\ calls[d].i < LoopLength(calls[d])

====
